---- MODULE Spec2Model ----
(***************************************************************************)
(* Office-document to PDF processors (src/lib/pdf/processors):             *)
(* PPTXToPDFProcessor and WordToPDFProcessor, each with its module-level   *)
(* converter provider getConverter.  The model follows the JavaScript run  *)
(* to completion semantics: one action is one synchronous block of code,   *)
(* from a call or a resumed await up to the next await or return.          *)
(***************************************************************************)
EXTENDS Integers, Sequences, FiniteSets, TLC

(***************************************************************************)
(* Bounds of the model.                                                    *)
(***************************************************************************)
\* process() calls issued in one behaviour, over all processor instances
MaxCalls == 2
\* progress events one engine initialization reports
MaxInitReports == 1
\* ticks of the synthetic ticker that one conversion sees before it settles
MaxTicks == 1

(***************************************************************************)
(* Program constants.                                                      *)
(***************************************************************************)
MAX_FILE_SIZE == 50 * 1024 * 1024
\* if (this.progress >= 98) return;
TICK_CEILING == 98

Min(a, b) == IF a <= b THEN a ELSE b

(***************************************************************************)
(* File names are sequences of one-character strings, so that split('.'),  *)
(* toLowerCase() and the regular expressions are computed, not assumed.    *)
(***************************************************************************)
UpperCase == <<"A","B","C","D","E","F","G","H","I","J","K","L","M",
               "N","O","P","Q","R","S","T","U","V","W","X","Y","Z">>
LowerCase == <<"a","b","c","d","e","f","g","h","i","j","k","l","m",
               "n","o","p","q","r","s","t","u","v","w","x","y","z">>

\* String.prototype.toLowerCase on one character
LowerChar(c) ==
    IF \E i \in 1..Len(UpperCase) : UpperCase[i] = c
    THEN LowerCase[CHOOSE i \in 1..Len(UpperCase) : UpperCase[i] = c]
    ELSE c

\* String.prototype.toLowerCase
ToLowerCase(s) == [i \in 1..Len(s) |-> LowerChar(s[i])]

\* positions of '.' in a name
DotPositions(s) == {i \in 1..Len(s) : s[i] = "."}

\* name.split('.').pop(): the text after the last '.', the whole name when
\* it holds no '.' (split never returns an empty array)
LastSegment(s) ==
    IF DotPositions(s) = {} THEN s
    ELSE LET d == CHOOSE i \in DotPositions(s) : \A j \in DotPositions(s) : j <= i
         IN  SubSeq(s, d + 1, Len(s))

\* const ext = file.name.split('.').pop()?.toLowerCase() || '';
FileExt(name) == ToLowerCase(LastSegment(name))

Families == {"pptx", "word"}

\* const validExts = [...]
ValidExts(f) ==
    IF f = "pptx"
    THEN {<<"p","p","t","x">>, <<"p","p","t">>, <<"o","d","p">>}
    ELSE {<<"d","o","c","x">>, <<"d","o","c">>, <<"o","d","t">>, <<"r","t","f">>}

\* the alternatives of /\.(pptx?|odp)$/i and /\.(docx?|odt|rtf)$/i
StripExts(f) ==
    IF f = "pptx"
    THEN {<<"p","p","t","x">>, <<"p","p","t">>, <<"o","d","p">>}
    ELSE {<<"d","o","c","x">>, <<"d","o","c">>, <<"o","d","t">>, <<"r","t","f">>}

\* the regular expression matches at the end of the name: a '.' followed by
\* one of the alternatives, compared without regard to case
MatchesStripPattern(f, name, e) ==
    /\ Len(name) >= Len(e) + 1
    /\ name[Len(name) - Len(e)] = "."
    /\ ToLowerCase(SubSeq(name, Len(name) - Len(e) + 1, Len(name))) = e

\* a replace that cuts the name at its first '.'
BaseNameAtFirstDot(f, name) ==
    IF DotPositions(name) = {} THEN name
    ELSE SubSeq(name, 1, (CHOOSE i \in DotPositions(name) :
                               \A j \in DotPositions(name) : i <= j) - 1)

\* file.name.replace(/\.(pptx?|odp)$/i, '')
BaseName(f, name) ==
    IF \E e \in StripExts(f) : MatchesStripPattern(f, name, e)
    THEN LET e == CHOOSE x \in StripExts(f) : MatchesStripPattern(f, name, x)
         IN  SubSeq(name, 1, Len(name) - Len(e) - 1)
    ELSE name

\* `${baseName}.pdf`
OutputName(f, name) == BaseName(f, name) \o <<".","p","d","f">>

(***************************************************************************)
(* Inputs.  A file record carries the name and the size the code reads.    *)
(***************************************************************************)
Name_slides_v2_pptx == <<"s","l","i","d","e","s",".","v","2",".","p","p","t","x">>
Name_a_PPT == <<"a",".","P","P","T">>
Name_x_Odp == <<"x",".","O","d","p">>
Name_pptx == <<"p","p","t","x">>
Name_Report_DOCX == <<"R","e","p","o","r","t",".","D","O","C","X">>
Name_m_doc == <<"m",".","d","o","c">>
Name_n_rtf == <<"n",".","r","t","f">>
Name_o_ODT == <<"o",".","O","D","T">>
Name_docx == <<"d","o","c","x">>
Name_a_txt == <<"a",".","t","x","t">>
Name_a_pptx_bak == <<"a",".","p","p","t","x",".","b","a","k">>
Name_b_docx_dot == <<"b",".","d","o","c","x",".">>
Name_empty == << >>

Names == {Name_slides_v2_pptx, Name_a_PPT, Name_x_Odp, Name_pptx,
          Name_Report_DOCX, Name_m_doc, Name_n_rtf, Name_o_ODT, Name_docx,
          Name_a_txt, Name_a_pptx_bak, Name_b_docx_dot, Name_empty}

Sizes == {0, MAX_FILE_SIZE, MAX_FILE_SIZE + 1}

Files == [name : Names, size : Sizes]

\* input.files of every length up to two, every name with every size
AllInputs ==
    {<< >>} \cup {<<x>> : x \in Files}
            \cup {<<x, y>> : x \in [name : {Name_a_PPT, Name_n_rtf, Name_a_txt}, size : Sizes],
                             y \in [name : {Name_a_PPT, Name_a_txt}, size : {MAX_FILE_SIZE + 1}]}

\* the inputs of the runs that go on to the engine: per family one file
\* that passes validation and one input for each guard that rejects
ValidFile(f) ==
    [name |-> IF f = "pptx" THEN Name_a_PPT ELSE Name_Report_DOCX,
     size |-> MAX_FILE_SIZE]

InputsOf(f) ==
    {<< >>,
     <<ValidFile(f)>>,
     <<[ValidFile(f) EXCEPT !.size = MAX_FILE_SIZE + 1]>>,
     <<[name |-> Name_a_txt, size |-> MAX_FILE_SIZE + 1]>>}

\* percentages the engine reports while it initializes (multiples of 5, on
\* which percent * 0.8 is a whole number)
InitPercents == {0, 100}

(***************************************************************************)
(* Processor instances: two of the presentation family, one of the         *)
(* document family.                                                        *)
(***************************************************************************)
Procs == {"p1", "p2", "w1"}

Family(p) == IF p = "w1" THEN "word" ELSE "pptx"

VARIABLES
    proc,               \* per processor instance: its fields and its call
    converterPromise,   \* per provider: let converterPromise
    converterInstance,  \* per provider: let converterInstance
    importing,          \* per provider: the inner async function awaits import()
    initOwner,          \* per provider: whose onProgress initialize relays to
    initCalls,          \* per provider: invocations of initialize so far
    initReports,        \* per provider: progress events reported so far
    engineReady,        \* the engine handle's isReady()
    nCalls              \* process() calls issued so far

vars == <<proc, converterPromise, converterInstance, importing, initOwner,
          initCalls, initReports, engineReady, nCalls>>

\* the providers and the engine
shared == <<converterPromise, converterInstance, importing, initOwner,
            initCalls, initReports, engineReady>>

NoResult == [kind |-> "none", filename |-> << >>, detail |-> "none"]

\* no earlier successful call
NoCall == [input |-> << >>, filename |-> << >>]

\* createErrorOutput(code, message, details)
ErrorOutput(kind, detail) == [kind |-> kind, filename |-> << >>, detail |-> detail]

\* createSuccessOutput(pdfBlob, filename, { format: 'pdf' })
SuccessOutput(filename) == [kind |-> "success", filename |-> filename, detail |-> "pdf"]

\* a freshly constructed processor
NewProcessor ==
    [pc |-> "idle", input |-> << >>, progress |-> 0, cancelled |-> FALSE,
     conversionProgressTimer |-> FALSE, cbCount |-> 0, cbLast |-> -1,
     cbOrdered |-> TRUE,
     called |-> {}, log |-> << >>, converter |-> "null", result |-> NoResult,
     previous |-> NoCall]

Init ==
    /\ proc = [p \in Procs |-> NewProcessor]
    /\ converterPromise = [f \in Families |-> "null"]
    /\ converterInstance = [f \in Families |-> "null"]
    /\ importing = [f \in Families |-> FALSE]
    /\ initOwner = [f \in Families |-> "none"]
    /\ initCalls = [f \in Families |-> 0]
    /\ initReports = [f \in Families |-> 0]
    /\ engineReady = FALSE
    /\ nCalls = 0

(***************************************************************************)
(* Methods of a processor, as functions of its record.                     *)
(***************************************************************************)
\* the call of an engine or timer function op, recorded with the number of
\* progress reports made before it and the value last reported
Call(r, op) ==
    [r EXCEPT !.called = @ \cup {op},
              !.log = Append(@, [op |-> op, reports |-> r.cbCount, last |-> r.cbLast])]

\* stopConversionProgress(): clearInterval and null the timer
StopConversionProgress(r) == [r EXCEPT !.conversionProgressTimer = FALSE]

\* startConversionProgress(message): stop, then setInterval
StartConversionProgress(r) ==
    [Call(StopConversionProgress(r), "setInterval")
        EXCEPT !.conversionProgressTimer = TRUE]

\* BasePDFProcessor.updateProgress: store the value, call this.onProgress.
\* The callback's invocations are recorded: how many, the last value, and
\* whether each value so far was at least the one before it.
UpdateProgress(r, value) ==
    [r EXCEPT !.progress = value, !.cbCount = @ + 1, !.cbLast = value,
              !.cbOrdered = @ /\ (r.cbCount = 0 \/ value >= r.cbLast)]

\* BasePDFProcessor.reset: progress and cancellation flag back to initial
BaseReset(r) == [r EXCEPT !.progress = 0, !.cancelled = FALSE]

\* reset(): stopConversionProgress(); super.reset()
Reset(r) == BaseReset(StopConversionProgress(r))

\* BasePDFProcessor.checkCancelled
CheckCancelled(r) == r.cancelled

\* the first lines of process: reset, register the callback; the record of
\* the call that starts (what it was given, what it has called so far)
EnterProcess(r, files) ==
    [Reset(r) EXCEPT !.input = files, !.cbCount = 0, !.cbLast = -1,
                     !.cbOrdered = TRUE, !.called = {}, !.log = << >>,
                     !.converter = "null", !.result = NoResult,
                     !.previous = IF r.result.kind = "success"
                                  THEN [input |-> r.input, filename |-> r.result.filename]
                                  ELSE NoCall]

\* return from process with an output
Return(r, out) == [r EXCEPT !.pc = "done", !.result = out]

(***************************************************************************)
(* Validation: the three guards at the top of process, in their order.     *)
(***************************************************************************)
\* the file-count guard written as files.length === 0
ValidateNoFileOnly(f, files) ==
    IF Len(files) = 0
    THEN ErrorOutput("INVALID_OPTIONS", "file count")
    ELSE IF FileExt(files[1].name) \notin ValidExts(f)
    THEN ErrorOutput("FILE_TYPE_INVALID", "received type")
    ELSE IF files[1].size > MAX_FILE_SIZE
    THEN ErrorOutput("INVALID_OPTIONS", "file size")
    ELSE NoResult

\* the size guard placed before the extension guard
ValidateSizeFirst(f, files) ==
    IF Len(files) # 1
    THEN ErrorOutput("INVALID_OPTIONS", "file count")
    ELSE IF files[1].size > MAX_FILE_SIZE
    THEN ErrorOutput("INVALID_OPTIONS", "file size")
    ELSE IF FileExt(files[1].name) \notin ValidExts(f)
    THEN ErrorOutput("FILE_TYPE_INVALID", "received type")
    ELSE NoResult

\* the size guard written with >=
ValidateSizeInclusive(f, files) ==
    IF Len(files) # 1
    THEN ErrorOutput("INVALID_OPTIONS", "file count")
    ELSE IF FileExt(files[1].name) \notin ValidExts(f)
    THEN ErrorOutput("FILE_TYPE_INVALID", "received type")
    ELSE IF files[1].size >= MAX_FILE_SIZE
    THEN ErrorOutput("INVALID_OPTIONS", "file size")
    ELSE NoResult

Validate(f, files) ==
    IF Len(files) # 1
    THEN ErrorOutput("INVALID_OPTIONS", "file count")
    ELSE IF FileExt(files[1].name) \notin ValidExts(f)
    THEN ErrorOutput("FILE_TYPE_INVALID", "received type")
    ELSE IF files[1].size > MAX_FILE_SIZE
    THEN ErrorOutput("INVALID_OPTIONS", "file size")
    ELSE NoResult

\* Math.min(percent * 0.8, 80)
RelayProgress(percent) == Min((percent * 8) \div 10, 80)

\* converterInstance?.isReady()
InstanceReady(f) == converterInstance[f] # "null" /\ engineReady

(***************************************************************************)
(* getConverter, up to its first await.                                    *)
(***************************************************************************)
\* getConverter without the converterPromise branch
GetConverterPathNoJoin(f) ==
    IF InstanceReady(f) THEN "ready" ELSE "start"

\* getConverter that only coalesces onto a pending promise, and otherwise
\* initializes for each request
GetConverterPathPerRequest(f) ==
    IF converterPromise[f] = "pending" THEN "join" ELSE "start"

\* which of the three branches a call takes
GetConverterPath(f) ==
    IF InstanceReady(f) THEN "ready"
    ELSE IF converterPromise[f] # "null" THEN "join"
    ELSE "start"

(***************************************************************************)
(* process, block by block.                                                *)
(***************************************************************************)
\* the 5% report made before the validation guards
RejectedCallAfterReport(r, files, out) ==
    Return(UpdateProgress(EnterProcess(r, files), 5), out)

\* process returns from one of the validation guards
RejectedCall(r, files, out) == Return(EnterProcess(r, files), out)

\* validation passed: report 5% and call getConverter
AcceptedCall(r, files, path) ==
    [Call(UpdateProgress(EnterProcess(r, files), 5), "getConverter")
        EXCEPT !.pc = IF path = "ready" THEN "gotConverter" ELSE "awaitPromise"]

\* process(input, onProgress) from its first line to the first await or to
\* the return of a validation guard
StartProcess(p, files) ==
    LET f == Family(p)
        r == proc[p]
        out == Validate(f, files)
        path == GetConverterPath(f)
    IN  /\ r.pc \in {"idle", "done"}
        /\ nCalls < MaxCalls
        /\ nCalls' = nCalls + 1
        /\ IF out # NoResult
           THEN /\ proc' = [proc EXCEPT ![p] = RejectedCall(r, files, out)]
                /\ UNCHANGED shared
           ELSE /\ proc' = [proc EXCEPT ![p] = AcceptedCall(r, files, path)]
                /\ IF path = "start"
                   THEN /\ converterPromise' = [converterPromise EXCEPT ![f] = "pending"]
                        /\ importing' = [importing EXCEPT ![f] = TRUE]
                        /\ initOwner' = [initOwner EXCEPT ![f] = p]
                        /\ initReports' = [initReports EXCEPT ![f] = 0]
                        /\ UNCHANGED <<converterInstance, initCalls, engineReady>>
                   ELSE UNCHANGED shared

\* the inner async function resumes after import(): it stores the handle
\* and calls initialize with the relaying callback
ImportDone(f) ==
    /\ importing[f]
    /\ importing' = [importing EXCEPT ![f] = FALSE]
    /\ converterInstance' = [converterInstance EXCEPT ![f] = "engine"]
    /\ initCalls' = [initCalls EXCEPT ![f] = @ + 1]
    /\ UNCHANGED <<proc, converterPromise, initOwner, initReports, engineReady, nCalls>>

\* an initialize call is running for provider f
Initializing(f) ==
    converterPromise[f] = "pending" /\ ~importing[f] /\ converterInstance[f] # "null"

\* the engine reports progress: onProgress?.(percent, message), which is the
\* owner's this.updateProgress(Math.min(percent * 0.8, 80), message)
InitProgress(f, percent) ==
    /\ Initializing(f)
    /\ initReports[f] < MaxInitReports
    /\ initReports' = [initReports EXCEPT ![f] = @ + 1]
    /\ proc' = [proc EXCEPT ![initOwner[f]] = UpdateProgress(@, RelayProgress(percent))]
    /\ UNCHANGED <<converterPromise, converterInstance, importing, initOwner,
                   initCalls, engineReady, nCalls>>

\* initialize resolves: the engine is ready and converterPromise fulfils
InitResolve(f) ==
    /\ Initializing(f)
    /\ engineReady' = TRUE
    /\ converterPromise' = [converterPromise EXCEPT ![f] = "fulfilled"]
    /\ UNCHANGED <<proc, converterInstance, importing, initOwner, initCalls,
                   initReports, nCalls>>

\* initialize rejects: converterPromise rejects and stays as it is
InitReject(f) ==
    /\ Initializing(f)
    /\ converterPromise' = [converterPromise EXCEPT ![f] = "rejected"]
    /\ UNCHANGED <<proc, converterInstance, importing, initOwner, initCalls,
                   initReports, engineReady, nCalls>>

\* process without the checkpoint after getConverter
FirstCheckpointSkipped(r) == FALSE

\* if (this.checkCancelled()) after getConverter
FirstCheckpoint(r) == CheckCancelled(r)

\* process without the checkpoint after the race
SecondCheckpointSkipped(r) == FALSE

\* if (this.checkCancelled()) after the race
SecondCheckpoint(r) == CheckCancelled(r)

\* convertToPdf called and the timeout armed before the 85% report and the
\* start of the ticker
BeginConversionUnannounced(r) ==
    [StartConversionProgress(UpdateProgress(Call(Call(r, "convertToPdf"), "setTimeout"), 85))
        EXCEPT !.pc = "converting"]

\* report 85%, start the ticker, call convertToPdf and arm the timeout
BeginConversion(r) ==
    [Call(Call(StartConversionProgress(UpdateProgress(r, 85)), "convertToPdf"),
          "setTimeout")
        EXCEPT !.pc = "converting"]

\* process resumes with the converter: first checkpoint, then the
\* conversion is started
GetConverterResolved(p) ==
    LET f == Family(p)
        r == [proc[p] EXCEPT !.converter = converterInstance[f]]
    IN  /\ \/ proc[p].pc = "gotConverter"
           \/ proc[p].pc = "awaitPromise" /\ converterPromise[f] = "fulfilled"
        /\ proc' = [proc EXCEPT ![p] =
                      IF FirstCheckpoint(r)
                      THEN Return(r, ErrorOutput("PROCESSING_CANCELLED", "none"))
                      ELSE BeginConversion(r)]
        /\ UNCHANGED <<shared, nCalls>>

\* a catch block that leaves the ticker running
CatchErrorTickerLeft(r, message) ==
    Return(r, ErrorOutput("PROCESSING_FAILED", message))

\* no catch block: the error leaves process as a rejection
CatchErrorRethrown(r, message) ==
    [StopConversionProgress(r) EXCEPT !.pc = "rejected"]

\* the catch block
CatchError(r, message) ==
    Return(StopConversionProgress(r), ErrorOutput("PROCESSING_FAILED", message))

\* await converterPromise throws in getConverter: process lands in catch
GetConverterRejected(p) ==
    /\ proc[p].pc = "awaitPromise"
    /\ converterPromise[Family(p)] = "rejected"
    /\ proc' = [proc EXCEPT ![p] = CatchError(@, "initialize error")]
    /\ UNCHANGED <<shared, nCalls>>

\* an interval callback without the ceiling
TickUnbounded(p) ==
    /\ proc[p].conversionProgressTimer
    /\ proc' = [proc EXCEPT ![p] = UpdateProgress(@, @.progress + 1)]
    /\ UNCHANGED <<shared, nCalls>>

\* the setInterval callback of startConversionProgress
Tick(p) ==
    /\ proc[p].conversionProgressTimer
    /\ proc' = [proc EXCEPT ![p] =
                  IF @.progress >= TICK_CEILING THEN @
                  ELSE UpdateProgress(@, @.progress + 1)]
    /\ UNCHANGED <<shared, nCalls>>

\* success returned without the final report
FinishSuccessUnreported(r, f) ==
    Return(r, SuccessOutput(OutputName(f, r.input[1].name)))

\* after the race is won by the conversion and the second checkpoint passed
FinishSuccess(r, f) ==
    Return(UpdateProgress(r, 100), SuccessOutput(OutputName(f, r.input[1].name)))

\* convertToPdf resolves with the PDF: the race settles
ConvertResolved(p) ==
    LET r == StopConversionProgress(proc[p])
    IN  /\ proc[p].pc = "converting"
        /\ proc' = [proc EXCEPT ![p] =
                      IF SecondCheckpoint(r)
                      THEN Return(r, ErrorOutput("PROCESSING_CANCELLED", "none"))
                      ELSE FinishSuccess(r, Family(p))]
        /\ UNCHANGED <<shared, nCalls>>

\* convertToPdf rejects: the race settles in catch
ConvertRejected(p) ==
    /\ proc[p].pc = "converting"
    /\ proc' = [proc EXCEPT ![p] = CatchError(@, "convertToPdf error")]
    /\ UNCHANGED <<shared, nCalls>>

\* a timeout timer whose rejection does not settle the race
ConvertTimedOutUnraced(p) ==
    /\ proc[p].pc = "converting"
    /\ UNCHANGED vars

\* the timeout timer fires first: the race settles in catch
ConvertTimedOut(p) ==
    /\ proc[p].pc = "converting"
    /\ proc' = [proc EXCEPT ![p] = CatchError(@, "timed out")]
    /\ UNCHANGED <<shared, nCalls>>

\* BasePDFProcessor.cancel(), called while a process call is under way
Cancel(p) ==
    /\ proc[p].pc \notin {"idle", "done"}
    /\ ~proc[p].cancelled
    /\ proc' = [proc EXCEPT ![p].cancelled = TRUE]
    /\ UNCHANGED <<shared, nCalls>>

Next ==
    \/ \E p \in Procs : \E files \in InputsOf(Family(p)) : StartProcess(p, files)
    \/ \E f \in Families : ImportDone(f)
    \/ \E f \in Families, percent \in InitPercents : InitProgress(f, percent)
    \/ \E f \in Families : InitResolve(f)
    \/ \E f \in Families : InitReject(f)
    \/ \E p \in Procs : GetConverterResolved(p)
    \/ \E p \in Procs : GetConverterRejected(p)
    \/ \E p \in Procs : proc[p].progress < 85 + MaxTicks /\ Tick(p)
    \/ \E p \in Procs : ConvertResolved(p)
    \/ \E p \in Procs : ConvertRejected(p)
    \/ \E p \in Procs : ConvertTimedOut(p)
    \/ \E p \in Procs : Cancel(p)

Spec == Init /\ [][Next]_vars

\* validation alone: process is given every input of AllInputs
NextInputs ==
    \E p \in Procs : \E files \in AllInputs : StartProcess(p, files)

SpecInputs == Init /\ [][NextInputs]_vars

\* an engine that initializes and converts without failure, given every
\* name of Names in a file of the largest size allowed: the runs that end in
\* a success output
NextNames ==
    \/ \E p \in Procs : \E n \in Names :
            StartProcess(p, <<[name |-> n, size |-> MAX_FILE_SIZE]>>)
    \/ \E f \in Families : ImportDone(f)
    \/ \E f \in Families : InitResolve(f)
    \/ \E p \in Procs : GetConverterResolved(p)
    \/ \E p \in Procs : ConvertResolved(p)

SpecNames == Init /\ [][NextNames]_vars

\* one processor of each family
OneOfEach == {"p1", "w1"}

\* one processor of each family, the ticker ticking any number of times
NextTicker ==
    \/ \E p \in OneOfEach : \E files \in InputsOf(Family(p)) : StartProcess(p, files)
    \/ \E f \in Families : ImportDone(f)
    \/ \E f \in Families, percent \in InitPercents : InitProgress(f, percent)
    \/ \E f \in Families : InitResolve(f)
    \/ \E f \in Families : InitReject(f)
    \/ \E p \in OneOfEach : GetConverterResolved(p)
    \/ \E p \in OneOfEach : GetConverterRejected(p)
    \/ \E p \in OneOfEach : Tick(p)
    \/ \E p \in OneOfEach : ConvertResolved(p)
    \/ \E p \in OneOfEach : ConvertRejected(p)
    \/ \E p \in OneOfEach : ConvertTimedOut(p)
    \/ \E p \in OneOfEach : Cancel(p)

SpecTicker == Init /\ [][NextTicker]_vars

\* an engine whose convertToPdf never settles, called by one processor of
\* each family: the race can only be settled by the timeout timer, which
\* setTimeout fires once its delay has passed
NextHang ==
    \/ \E p \in OneOfEach : \E files \in InputsOf(Family(p)) : StartProcess(p, files)
    \/ \E f \in Families : ImportDone(f)
    \/ \E f \in Families, percent \in InitPercents : InitProgress(f, percent)
    \/ \E f \in Families : InitResolve(f)
    \/ \E f \in Families : InitReject(f)
    \/ \E p \in OneOfEach : GetConverterResolved(p)
    \/ \E p \in OneOfEach : GetConverterRejected(p)
    \/ \E p \in OneOfEach : proc[p].progress < 85 + MaxTicks /\ Tick(p)
    \/ \E p \in OneOfEach : ConvertTimedOut(p)
    \/ \E p \in OneOfEach : Cancel(p)

SpecHang ==
    Init /\ [][NextHang]_vars /\ \A p \in Procs : WF_vars(ConvertTimedOut(p))

(***************************************************************************)
(* Claims.                                                                 *)
(***************************************************************************)
\* a process call has been issued on p (its input and outcome are p's)
Started(p) == proc[p].pc # "idle"

\* p's call has returned from a validation guard
FailedValidation(r) ==
    r.pc = "done" /\ r.result.kind \in {"INVALID_OPTIONS", "FILE_TYPE_INVALID"}

\* C1: for both processors, a call whose input holds no file or more than
\* one file returns INVALID_OPTIONS, whatever the files' names and sizes.
C1_WrongFileCount ==
    \A p \in Procs :
        (Started(p) /\ Len(proc[p].input) # 1)
            => proc[p].pc = "done" /\ proc[p].result.kind = "INVALID_OPTIONS"

\* C1 witness: the presentation processor has rejected an empty input and
\* the document processor an input of two files whose first file is valid.
C1_Witness ==
    /\ proc["p1"].pc = "done" /\ Len(proc["p1"].input) = 0
    /\ proc["p1"].result.kind = "INVALID_OPTIONS"
    /\ proc["w1"].pc = "done" /\ Len(proc["w1"].input) = 2
    /\ proc["w1"].input[1] = [name |-> Name_n_rtf, size |-> 0]
    /\ proc["w1"].result.kind = "INVALID_OPTIONS"

\* the names of Names whose extension, lower-cased, is outside the family's
\* whitelist (pptx, ppt, odp; docx, doc, odt, rtf), listed by hand
NamesOutsideWhitelist(f) ==
    IF f = "pptx"
    THEN {Name_Report_DOCX, Name_m_doc, Name_n_rtf, Name_o_ODT, Name_docx,
          Name_a_txt, Name_a_pptx_bak, Name_b_docx_dot, Name_empty}
    ELSE {Name_slides_v2_pptx, Name_a_PPT, Name_x_Odp, Name_pptx,
          Name_a_txt, Name_a_pptx_bak, Name_b_docx_dot, Name_empty}

\* C2: a single file whose extension is outside the processor's whitelist
\* is answered FILE_TYPE_INVALID whatever its size, also above the limit.
C2_WrongTypeWhateverSize ==
    /\ \A f \in Families :
           NamesOutsideWhitelist(f) = {n \in Names : FileExt(n) \notin ValidExts(f)}
    /\ \A p \in Procs :
           (/\ Started(p)
            /\ Len(proc[p].input) = 1
            /\ proc[p].input[1].name \in NamesOutsideWhitelist(Family(p)))
               => proc[p].pc = "done" /\ proc[p].result.kind = "FILE_TYPE_INVALID"

\* C2 witness: both processors have answered FILE_TYPE_INVALID to a file of
\* a wrong type that is also larger than 52,428,800 bytes.
C2_Witness ==
    /\ proc["p1"].input = <<[name |-> Name_Report_DOCX, size |-> 52428801]>>
    /\ proc["p1"].result.kind = "FILE_TYPE_INVALID"
    /\ proc["w1"].input = <<[name |-> Name_a_PPT, size |-> 52428801]>>
    /\ proc["w1"].result.kind = "FILE_TYPE_INVALID"

\* C3: a single file with a whitelisted extension is answered
\* INVALID_OPTIONS exactly when its size is above 52,428,800 bytes; at
\* 52,428,800 bytes and below the call goes on to getConverter.
C3_SizeLimit ==
    \A p \in Procs :
        (/\ Started(p)
         /\ Len(proc[p].input) = 1
         /\ proc[p].input[1].name \in Names \ NamesOutsideWhitelist(Family(p)))
            => /\ proc[p].result.kind = "INVALID_OPTIONS"
                    <=> proc[p].input[1].size > 52428800
               /\ proc[p].input[1].size <= 52428800
                    => /\ proc[p].pc # "done"
                       /\ proc[p].result = NoResult
                       /\ "getConverter" \in proc[p].called

\* C3 witness: a file of exactly 52,428,800 bytes has passed validation in
\* one processor while one byte more has been rejected in the other.
C3_Witness ==
    /\ proc["p1"].input = <<[name |-> Name_slides_v2_pptx, size |-> 52428800]>>
    /\ proc["p1"].pc = "awaitPromise"
    /\ proc["w1"].input = <<[name |-> Name_Report_DOCX, size |-> 52428801]>>
    /\ proc["w1"].result.kind = "INVALID_OPTIONS"

\* C4: a call that fails validation calls nothing of the engine: in the
\* step that rejects it the providers and the engine are unchanged, and the
\* call has made no progress report, called neither getConverter nor
\* convertToPdf, and started neither the ticker nor the timeout timer.
C4_ValidationBeforeEngine ==
    [][\A p \in Procs :
          (nCalls' # nCalls /\ proc'[p] # proc[p] /\ FailedValidation(proc'[p]))
              => /\ UNCHANGED shared
                 /\ proc'[p].cbCount = 0
                 /\ proc'[p].called = {}
                 /\ proc'[p].converter = "null"
                 /\ ~proc'[p].conversionProgressTimer]_vars

\* C4 witness: a call was rejected by validation while an initialization of
\* its provider was in flight for another processor, and left it in flight.
C4_Witness ==
    /\ FailedValidation(proc["p2"])
    /\ proc["p2"].cbCount = 0
    /\ proc["p1"].pc = "awaitPromise"
    /\ converterPromise["pptx"] = "pending"
    /\ initCalls["pptx"] = 1

\* C5: within one provider initialize is invoked at most once, however many
\* callers arrive before the handle is ready; a caller never waits without
\* an initialization to wait for, and every caller that got a converter got
\* the provider's one ready handle.
C5_InitializeOnce ==
    /\ \A f \in Families : initCalls[f] <= 1
    /\ \A p \in Procs :
           /\ proc[p].pc = "awaitPromise" => converterPromise[Family(p)] # "null"
           /\ proc[p].converter # "null"
                => /\ proc[p].converter = converterInstance[Family(p)]
                   /\ engineReady

\* C5 witness: two processors of one family waited for the same
\* initialization; it succeeded after one initialize call, one of them has
\* resumed with the handle and the other is about to.
C5_Witness ==
    /\ initCalls["pptx"] = 1
    /\ converterPromise["pptx"] = "fulfilled"
    /\ proc["p1"].pc = "converting" /\ proc["p1"].converter = "engine"
    /\ proc["p2"].pc = "awaitPromise"

\* C6: once a provider's handle is ready, no later step invokes initialize
\* for it again; and a successful call that follows a successful call with
\* the same input gives the same output filename.
C6_ReadyHandleReused ==
    [][/\ \A f \in Families : InstanceReady(f) => initCalls'[f] = initCalls[f]
       /\ \A p \in Procs :
              (/\ proc'[p].result.kind = "success"
               /\ proc'[p].previous # NoCall
               /\ proc'[p].previous.input = proc'[p].input)
                  => proc'[p].previous.filename = proc'[p].result.filename]_vars

\* C6 witness: the same processor succeeded twice in succession on the same
\* input, the second time on the ready handle, after one initialize call.
C6_Witness ==
    /\ proc["p1"].result.kind = "success"
    /\ proc["p1"].previous.input = proc["p1"].input
    /\ proc["p1"].previous.filename = proc["p1"].result.filename
    /\ proc["p1"].result.filename = <<"a",".","p","d","f">>
    /\ initCalls["pptx"] = 1
    /\ nCalls = 2

\* C7: after an initialization that failed, a call that arrives while the
\* handle is not ready starts a fresh initialization instead of awaiting
\* the rejected promise.
C7_RetryAfterFailedInit ==
    [][\A p \in Procs :
          (/\ proc[p].pc \in {"idle", "done"}
           /\ proc'[p].pc \in {"awaitPromise", "gotConverter"}
           /\ converterPromise[Family(p)] = "rejected"
           /\ ~InstanceReady(Family(p)))
              => /\ converterPromise'[Family(p)] = "pending"
                 /\ importing'[Family(p)]]_vars

\* C8: in a call that returned success, every value reported to the
\* callback was at least the value reported before it.
C8_ProgressMonotone ==
    \A p \in Procs : proc[p].result.kind = "success" => proc[p].cbOrdered

\* C9: a call that returned success made the 100% report as its last
\* callback invocation, with the ticker stopped.
C9_SuccessEndsAt100 ==
    \A p \in Procs :
        proc[p].result.kind = "success"
            => /\ proc[p].cbLast = 100
               /\ proc[p].progress = 100
               /\ ~proc[p].conversionProgressTimer

\* C9 witness: a call returned success after the ticker had ticked: its
\* reports were 5, 85, 86 and then 100.
C9_Witness ==
    /\ proc["w1"].result.kind = "success"
    /\ proc["w1"].cbCount = 4
    /\ proc["w1"].cbLast = 100
    /\ proc["w1"].cbOrdered

\* C10: a call that resumes from getConverter with the cancellation flag
\* set returns PROCESSING_CANCELLED; and a call whose flag was set while it
\* awaited the engine has, when it leaves that await, not called
\* convertToPdf, not reported 85%, and started neither ticker nor timer.
C10_CancelledBeforeConversion ==
    [][\A p \in Procs :
          (/\ proc[p].pc \in {"awaitPromise", "gotConverter"}
           /\ proc[p].cancelled
           /\ proc'[p].pc \notin {"awaitPromise", "gotConverter"})
              => /\ proc'[p].pc = "done"
                 /\ proc'[p].converter # "null"
                       => proc'[p].result.kind = "PROCESSING_CANCELLED"
                 /\ proc'[p].called = {"getConverter"}
                 /\ proc'[p].cbLast < 85
                 /\ ~proc'[p].conversionProgressTimer]_vars

\* C10 witness: the flag was set while the call awaited an initialization
\* that then succeeded; the call returned PROCESSING_CANCELLED having called
\* getConverter only.
C10_Witness ==
    /\ proc["p1"].result.kind = "PROCESSING_CANCELLED"
    /\ proc["p1"].converter = "engine"
    /\ proc["p1"].called = {"getConverter"}
    /\ initOwner["pptx"] = "p1"
    /\ proc["p1"].cbLast = 80

\* p's call has ended in the catch block with the timeout's message
TimedOut(r) ==
    /\ r.pc = "done"
    /\ r.result.kind = "PROCESSING_FAILED"
    /\ r.result.detail = "timed out"

\* C11: with a convertToPdf that never settles, a call that has begun the
\* conversion step ends: the timeout timer fires and the call returns
\* PROCESSING_FAILED with the timeout's message; it leaves the conversion
\* step in no other way and with no other result.
C11_TimeoutTerminates ==
    /\ \A p \in Procs : (proc[p].pc = "converting") ~> TimedOut(proc[p])
    /\ [][\A p \in Procs :
             (proc[p].pc = "converting" /\ proc'[p].pc # "converting")
                 => TimedOut(proc'[p]) /\ "setTimeout" \in proc[p].called]_vars

\* C11 witness: a call whose conversion never settled has returned the
\* timeout failure, after the ticker had ticked while it waited.
C11_Witness ==
    /\ TimedOut(proc["p1"])
    /\ proc["p1"].called = {"getConverter", "setInterval", "convertToPdf", "setTimeout"}
    /\ proc["p1"].progress = 86
    /\ ~proc["p1"].conversionProgressTimer

\* C12: a processor whose call has returned, or that has no call yet, holds
\* no live ticker; while the call stays returned neither the progress value
\* nor the number of callback invocations changes; and reset() leaves no
\* ticker running in whatever state it is called.
C12_TickerStoppedOnExit ==
    [][\A p \in Procs :
          /\ proc'[p].pc \in {"idle", "done"} => ~proc'[p].conversionProgressTimer
          /\ (proc[p].pc = "done" /\ nCalls' = nCalls)
                => /\ proc'[p].progress = proc[p].progress
                   /\ proc'[p].cbCount = proc[p].cbCount
          /\ ~Reset(proc'[p]).conversionProgressTimer]_vars

\* C12 witness: one call returned from catch after the ticker had ticked,
\* another returned PROCESSING_CANCELLED from the second checkpoint; both
\* processors hold no ticker.
C12_Witness ==
    /\ proc["p1"].pc = "done"
    /\ proc["p1"].result = ErrorOutput("PROCESSING_FAILED", "convertToPdf error")
    /\ proc["p1"].progress = 86
    /\ ~proc["p1"].conversionProgressTimer
    /\ proc["w1"].pc = "done"
    /\ proc["w1"].result.kind = "PROCESSING_CANCELLED"
    /\ "setInterval" \in proc["w1"].called
    /\ ~proc["w1"].conversionProgressTimer

ExpectedPdfName(name) ==
    CASE name = Name_slides_v2_pptx -> <<"s","l","i","d","e","s",".","v","2",".","p","d","f">>
      [] name = Name_a_PPT -> <<"a",".","p","d","f">>
      [] name = Name_x_Odp -> <<"x",".","p","d","f">>
      [] name = Name_Report_DOCX -> <<"R","e","p","o","r","t",".","p","d","f">>
      [] name = Name_m_doc -> <<"m",".","p","d","f">>
      [] name = Name_n_rtf -> <<"n",".","p","d","f">>
      [] name = Name_o_ODT -> <<"o",".","p","d","f">>
      [] name = Name_pptx -> <<"p","p","t","x",".","p","d","f">>
      [] name = Name_docx -> <<"d","o","c","x",".","p","d","f">>
      [] OTHER -> << >>

\* s ends with the characters of t
EndsWith(s, t) ==
    Len(s) >= Len(t) /\ SubSeq(s, Len(s) - Len(t) + 1, Len(s)) = t

\* C14: the filename of a success output is the input's name with the final
\* dot and the whitelisted extension after it removed, whatever its case,
\* and ".pdf" appended; only the final extension goes, and the filename
\* never ends with a source extension followed by ".pdf".
C14_OutputFilename ==
    \A p \in Procs :
        proc[p].result.kind = "success"
            => /\ proc[p].result.filename = ExpectedPdfName(proc[p].input[1].name)
               /\ \A e \in {<<"p","p","t","x">>, <<"p","p","t">>, <<"o","d","p">>,
                            <<"d","o","c","x">>, <<"d","o","c">>, <<"o","d","t">>,
                            <<"r","t","f">>} :
                     ~EndsWith(ToLowerCase(proc[p].result.filename),
                               <<".">> \o e \o <<".","p","d","f">>)

\* C14 witness: Report.DOCX became Report.pdf and slides.v2.pptx became
\* slides.v2.pdf.
C14_Witness ==
    /\ proc["w1"].result.kind = "success"
    /\ proc["w1"].input[1].name = Name_Report_DOCX
    /\ proc["w1"].result.filename = <<"R","e","p","o","r","t",".","p","d","f">>
    /\ proc["p1"].result.kind = "success"
    /\ proc["p1"].input[1].name = Name_slides_v2_pptx
    /\ proc["p1"].result.filename = <<"s","l","i","d","e","s",".","v","2",".","p","d","f">>

\* C15: setting the cancellation flag changes nothing but the flag: a call
\* that is converting stays converting; and when the conversion then
\* resolves with the flag set, the call returns PROCESSING_CANCELLED with no
\* filename, the ticker stopped, and no further report (so never 100%).
C15_CancelSeenAfterRace ==
    [][\A p \in Procs :
          /\ (proc'[p].cancelled /\ ~proc[p].cancelled)
                => proc'[p] = [proc[p] EXCEPT !.cancelled = TRUE]
          /\ (/\ proc[p].pc = "converting"
              /\ proc[p].cancelled
              /\ proc'[p].pc = "done"
              /\ proc'[p].result.kind # "PROCESSING_FAILED")
                => /\ proc'[p].result = ErrorOutput("PROCESSING_CANCELLED", "none")
                   /\ proc'[p].cbCount = proc[p].cbCount
                   /\ proc'[p].cbLast # 100
                   /\ ~proc'[p].conversionProgressTimer]_vars

\* C15 witness: the flag was set during the conversion, which resolved; the
\* call returned PROCESSING_CANCELLED with 86 as its last report.
C15_Witness ==
    /\ proc["p1"].pc = "done"
    /\ proc["p1"].result.kind = "PROCESSING_CANCELLED"
    /\ "convertToPdf" \in proc["p1"].called
    /\ proc["p1"].cancelled
    /\ proc["p1"].cbLast = 86

\* C16: whenever the race settles with the cancellation flag set, by
\* success, by engine failure or by timeout, the call returns
\* PROCESSING_CANCELLED.
C16_CancelledWhateverOutcome ==
    \A p \in Procs :
        (proc[p].pc = "done" /\ "convertToPdf" \in proc[p].called /\ proc[p].cancelled)
            => proc[p].result.kind = "PROCESSING_CANCELLED"

\* C17: the progress value stays within 0..100; while a call is converting
\* its progress, which is the value last reported, lies in 85..98; and a
\* step that leaves the call converting either leaves progress and the
\* number of reports unchanged or, from below 98, raises progress by exactly
\* 1 with exactly one report of the new value.
C17_TickerBounded ==
    [][\A p \in Procs :
          /\ proc'[p].progress \in 0..100
          /\ proc'[p].pc = "converting"
                => /\ proc'[p].progress \in 85..98
                   /\ proc'[p].cbLast = proc'[p].progress
          /\ (proc[p].pc = "converting" /\ proc'[p].pc = "converting")
                => \/ /\ proc'[p].progress = proc[p].progress
                      /\ proc'[p].cbCount = proc[p].cbCount
                   \/ /\ proc[p].progress < 98
                      /\ proc'[p].progress = proc[p].progress + 1
                      /\ proc'[p].cbCount = proc[p].cbCount + 1
                      /\ proc'[p].cbLast = proc[p].progress + 1]_vars

\* C17 witness: thirteen ticks after the 85% report the ticker has reached
\* 98 and the call is still converting.
C17_Witness ==
    /\ proc["p1"].pc = "converting"
    /\ proc["p1"].conversionProgressTimer
    /\ proc["p1"].progress = 98
    /\ proc["p1"].cbCount = 15

\* the positions in p's log of the calls of op
CallsOf(p, op) == {i \in DOMAIN proc[p].log : proc[p].log[i].op = op}

\* C18: the timeout timer is armed only in a call that has received the
\* converter, and after its convertToPdf call; a call that still awaits the
\* engine has armed no timer, and a timeout failure comes only from a call
\* that armed it; getConverter is called right after the 5% report and
\* convertToPdf right after the 85% report and the start of the ticker.
C18_TimeoutCoversConversionOnly ==
    \A p \in Procs :
        /\ \A i \in CallsOf(p, "setTimeout") :
              /\ proc[p].converter # "null"
              /\ i > 1 /\ proc[p].log[i - 1].op = "convertToPdf"
        /\ proc[p].pc \in {"awaitPromise", "gotConverter"}
              => "setTimeout" \notin proc[p].called
        /\ proc[p].result.detail = "timed out" => CallsOf(p, "setTimeout") # {}
        /\ \A i \in CallsOf(p, "getConverter") :
              i = 1 /\ proc[p].log[i].reports = 1 /\ proc[p].log[i].last = 5
        /\ \A i \in CallsOf(p, "convertToPdf") :
              /\ proc[p].log[i].reports >= 2 /\ proc[p].log[i].last = 85
              /\ i = 3 /\ proc[p].log[2].op = "setInterval"

\* C18 witness: a call whose initialization reported progress has gone on to
\* the conversion: getConverter after one report, convertToPdf after three,
\* the last of them 85, then the timer.
C18_Witness ==
    /\ proc["p1"].pc = "converting"
    /\ proc["p1"].log =
          <<[op |-> "getConverter", reports |-> 1, last |-> 5],
            [op |-> "setInterval", reports |-> 3, last |-> 85],
            [op |-> "convertToPdf", reports |-> 3, last |-> 85],
            [op |-> "setTimeout", reports |-> 3, last |-> 85]>>

\* C19: at any time at most one initialize call is in flight over both
\* providers, and processors of the two families that wait for the
\* converter wait for that one initialization.
C19_OneLiveInitialization ==
    /\ Cardinality({f \in Families : Initializing(f)}) <= 1
    /\ \A p, q \in Procs :
          (proc[p].pc = "awaitPromise" /\ proc[q].pc = "awaitPromise"
             /\ converterPromise[Family(p)] = "pending"
             /\ converterPromise[Family(q)] = "pending")
              => initCalls["pptx"] + initCalls["word"] <= 1

\* C20: a single file that passes the extension check has a name that ends
\* with a dot followed by an extension of the family's whitelist, in any
\* case, and the pattern of the filename derivation matches it.
C20_AcceptedNameEndsWithExtension ==
    \A p \in Procs :
        (/\ Started(p)
         /\ Len(proc[p].input) = 1
         /\ proc[p].result.kind # "FILE_TYPE_INVALID")
            => /\ \E e \in (IF Family(p) = "pptx"
                            THEN {<<"p","p","t","x">>, <<"p","p","t">>, <<"o","d","p">>}
                            ELSE {<<"d","o","c","x">>, <<"d","o","c">>,
                                  <<"o","d","t">>, <<"r","t","f">>}) :
                     EndsWith(ToLowerCase(proc[p].input[1].name), <<".">> \o e)
               /\ BaseName(Family(p), proc[p].input[1].name) # proc[p].input[1].name

====
